---- MODULE Spec2Model ----
(***************************************************************************)
(* State-machine model of send_eth.py: the EtherTransfer utility.          *)
(*                                                                         *)
(* One run of the script is EtherTransfer().run(): fee selection           *)
(* (get_gas_params), transaction assembly (build_transaction: chain id,    *)
(* nonce through retry(), gas estimate), the balance pre-check, signing,   *)
(* the broadcast and the receipt wait.  Every remote call is one step      *)
(* whose outcome (a reply or an exception) the chain client chooses.       *)
(* The chain keeps the sender's transaction counts across runs.            *)
(***************************************************************************)
EXTENDS Integers, Sequences, FiniteSets, TLC

VARIABLES
    env_gas_price,          \* os.getenv("DEFAULT_GAS_PRICE"), a string (<<>> when unset/empty)
    custom_gas_price_wei,   \* self.custom_gas_price_wei
    value_wei,              \* web3.to_wei(self.amount_eth, "ether")
    pending,                \* chain: sender's transaction count, "pending" view
    latest,                 \* chain: sender's transaction count, mined blocks only
    pc,                     \* position of the run
    block,                  \* get_gas_params(): block, the latest block as returned
    gas_params,             \* the dict get_gas_params() returned
    tx,                     \* the dict build_transaction() is assembling / returned
    gas_estimate,           \* the node's reply to web3.eth.estimate_gas, None without one
    balance,                \* send(): balance
    required,               \* send(): required
    r_func,                 \* retry(): func
    r_label,                \* retry(): label
    r_attempt,              \* retry(): attempt (loop index of the next attempt)
    r_sleeps,               \* retry(): time.sleep(RETRY_DELAY_SEC) calls made
    log,                    \* records emitted through logger, in order
    calls,                  \* per remote/local operation: invocations made in this run
    fails,                  \* per operation: invocations that raised in this run
    err,                    \* the exception that left send(), NoError otherwise
    tx_hash,                \* run(): tx_hash returned by send()
    exit_code,              \* process exit status, None while running
    runs,                   \* runs of the script started so far
    sent                    \* nonces of the transactions the node accepted, in order

vars == <<env_gas_price, custom_gas_price_wei, value_wei, pending, latest, pc,
          block, gas_params, tx, gas_estimate, balance, required, r_func, r_label, r_attempt,
          r_sleeps, log, calls, fails, err, tx_hash, exit_code, runs, sent>>

-----------------------------------------------------------------------------
(* Bounds of the model *)

\* largest transfer amount tried, in wei
MaxValue == 2
\* largest baseFeePerGas the latest block reports
MaxBaseFee == 2
\* largest suggested gas price the node reports
MaxNetPrice == 1
\* runs of the script against the same chain
MaxRuns == 2
\* wei per gwei.  to_wei(n, "gwei") multiplies by 10^9; the model keeps the
\* arithmetic and shrinks the unit so that gas * price stays a machine integer.
WeiPerGwei == 10

-----------------------------------------------------------------------------
(* Program constants *)

DEFAULT_GAS_LIMIT == 21000
DEFAULT_PRIORITY_FEE_GWEI == 2
EIP1559_BASEFEE_MULTIPLIER == 2
RETRY_ATTEMPTS == 3
RETRY_DELAY_SEC == 2
RECEIPT_TIMEOUT_SEC == 120

\* Python's None where an Optional[int] is expected; every such integer of
\* the program is non-negative.
None == -1

\* a dict with no keys
EmptyDict == <<>>

-----------------------------------------------------------------------------
(* Python helpers *)

\* truthiness of an Optional[int]: None and 0 are falsy
Truthy(x) == x # None /\ x # 0

\* a or b
Or(a, b) == IF Truthy(a) THEN a ELSE b

\* dict.get(key)
Get(d, key) == IF key \in DOMAIN d THEN d[key] ELSE None

Digits == {"0", "1", "2", "3", "4", "5", "6", "7", "8", "9"}

DigitVal(c) ==
    CASE c = "0" -> 0 [] c = "1" -> 1 [] c = "2" -> 2 [] c = "3" -> 3
      [] c = "4" -> 4 [] c = "5" -> 5 [] c = "6" -> 6 [] c = "7" -> 7
      [] c = "8" -> 8 [] c = "9" -> 9

IsDigits(s) == Len(s) > 0 /\ \A i \in 1..Len(s) : s[i] \in Digits

RECURSIVE DecValue(_)
DecValue(s) ==
    IF s = <<>> THEN 0
    ELSE DecValue(SubSeq(s, 1, Len(s) - 1)) * 10 + DigitVal(s[Len(s)])

\* int(value): [ok |-> FALSE] stands for ValueError
PyInt(s) ==
    IF IsDigits(s) THEN [ok |-> TRUE, val |-> DecValue(s)]
    ELSE IF Len(s) > 1 /\ s[1] = "-" /\ IsDigits(Tail(s))
         THEN [ok |-> TRUE, val |-> 0 - DecValue(Tail(s))]
    ELSE IF Len(s) > 1 /\ s[1] = "+" /\ IsDigits(Tail(s))
         THEN [ok |-> TRUE, val |-> DecValue(Tail(s))]
    ELSE [ok |-> FALSE, val |-> 0]

\* mutant: accepts every non-zero integer
PositiveOrNone_NonZero(gas_price) == IF gas_price # 0 THEN gas_price ELSE None

\* gas_price if gas_price > 0 else None
PositiveOrNone(gas_price) == IF gas_price > 0 THEN gas_price ELSE None

\* EtherTransfer._parse_custom_gas_price
ParseCustomGasPrice(value) ==
    IF value = <<>> THEN None
    ELSE LET r == PyInt(value) IN
         IF r.ok THEN PositiveOrNone(r.val) ELSE None

\* web3.to_wei(n, "gwei")
ToWeiGwei(n) == n * WeiPerGwei

-----------------------------------------------------------------------------
(* Inputs and the chain client's replies *)

\* the values of DEFAULT_GAS_PRICE tried: unset or empty, not a number, a bare
\* sign, a number followed by a letter, zero, negative, positive, with a
\* leading zero, with a plus sign, with two digits
EnvStrings ==
    {<<>>, <<"x">>, <<"-">>, <<"3", "x">>, <<"0">>, <<"-", "3">>, <<"3">>,
     <<"0", "3">>, <<"+", "3">>, <<"3", "0">>}

Values == 1..MaxValue

BaseFees == 0..MaxBaseFee

NetPrices == 0..MaxNetPrice

ChainIds == {1}

GasEstimates == {DEFAULT_GAS_LIMIT, DEFAULT_GAS_LIMIT * 2}

TO_ADDRESS == "to_address"

\* a reply of a remote call: a value, or an exception
Reply(v) == [ok |-> TRUE, val |-> v]
Raises == [ok |-> FALSE, val |-> None]

\* web3.eth.get_block("latest"): a block with or without baseFeePerGas, or an exception
BlockReplies ==
    {Reply([baseFeePerGas |-> b]) : b \in BaseFees}
        \cup {Reply(EmptyDict)}
        \cup {[ok |-> FALSE, val |-> EmptyDict]}

\* the fee fields a transaction dict carries
FeeFields(t) ==
    {t[k] : k \in DOMAIN t \cap {"gasPrice", "maxFeePerGas", "maxPriorityFeePerGas"}}

\* web3.eth.get_balance(from_address): any amount; the model tries the amounts
\* around value and around value plus gas times each fee field of the transaction
BalanceReplies(t) ==
    {Reply(0), Reply(t.value), Raises}
        \cup {Reply(t.gas * p + t.value + d) : p \in FeeFields(t), d \in {-1, 0, 1}}

ReceiptOutcomes == {"TransactionNotFound", "TimeExhausted"}

ReceiptStatuses == {0, 1}

Ops == {"get_block", "gas_price", "chain_id", "retry_func", "get_transaction_count",
        "estimate_gas", "get_balance", "sign_transaction", "send_raw_transaction",
        "wait_for_transaction_receipt"}

NoCalls == [o \in Ops |-> 0]

Count(f, ops) == [o \in Ops |-> IF o \in ops THEN f[o] + 1 ELSE f[o]]

-----------------------------------------------------------------------------
(* Exceptions and log records *)

NoError == [type |-> "None", text |-> "", label |-> "", args |-> <<>>]

\* RuntimeError(f"{label} failed after {RETRY_ATTEMPTS} attempts")
RetryError(label) ==
    [type |-> "RuntimeError", text |-> "failed after attempts", label |-> label,
     args |-> <<RETRY_ATTEMPTS>>]

\* ValueError(f"Insufficient balance. Required={required}, balance={balance}")
InsufficientBalanceError(req, bal) ==
    [type |-> "ValueError", text |-> "Insufficient balance.", label |-> "",
     args |-> <<req, bal>>]

\* ValueError("Insufficient funds to cover gas.")
InsufficientFundsError ==
    [type |-> "ValueError", text |-> "Insufficient funds to cover gas.", label |-> "",
     args |-> <<>>]

\* an exception of the client library that send() lets through unchanged
ClientError(op) == [type |-> "Exception", text |-> op, label |-> "", args |-> <<>>]

Rec(level, msg, label, n) == [level |-> level, msg |-> msg, label |-> label, n |-> n]

NoHash == [hex |-> "", nonce |-> None, value |-> None]

\* web3.to_hex(tx_hash) of the accepted transaction
HexHash(t) == [hex |-> "0x", nonce |-> t.nonce, value |-> t.value]

-----------------------------------------------------------------------------
(* The state after EtherTransfer() was constructed *)

NoFunc == [callable |-> FALSE, name |-> "", value |-> None]

\* the per-run state of a process that has just built its EtherTransfer
FreshRun ==
    /\ pc = "run"
    /\ block = EmptyDict
    /\ gas_params = EmptyDict
    /\ tx = EmptyDict
    /\ gas_estimate = None
    /\ balance = None
    /\ required = None
    /\ r_func = NoFunc
    /\ r_label = ""
    /\ r_attempt = 0
    /\ r_sleeps = 0
    /\ calls = NoCalls
    /\ fails = NoCalls
    /\ err = NoError
    /\ tx_hash = NoHash
    /\ exit_code = None

\* what __init__ logs: the warning of _parse_custom_gas_price on ValueError
InitLog(value) ==
    IF value # <<>> /\ ~PyInt(value).ok
    THEN <<Rec("warning", "Invalid DEFAULT_GAS_PRICE, ignoring.", "", 0)>>
    ELSE <<>>

Init ==
    /\ env_gas_price \in EnvStrings
    /\ custom_gas_price_wei = ParseCustomGasPrice(env_gas_price)
    /\ value_wei \in Values
    /\ pending = 0
    /\ latest = 0
    /\ log = InitLog(env_gas_price)
    /\ runs = 1
    /\ sent = <<>>
    /\ FreshRun

config == <<env_gas_price, custom_gas_price_wei, value_wei>>
chain == <<pending, latest, sent>>
retry_vars == <<r_func, r_label, r_attempt, r_sleeps>>

-----------------------------------------------------------------------------
(* run(): the except handler, lines 312-314 *)

\* mutant: the handler logs the failure and returns, the process ends normally
Raised_NoExit(e, lg) ==
    /\ err' = e
    /\ log' = Append(lg, Rec("critical", "Execution failed", e.label, 0))
    /\ exit_code' = 0
    /\ pc' = "exit"

\* exception e leaves send(); run() logs it and calls sys.exit(1)
Raised(e, lg) ==
    /\ err' = e
    /\ log' = Append(lg, Rec("critical", "Execution failed", e.label, 0))
    /\ exit_code' = 1
    /\ pc' = "exit"

\* run(), lines 300-309: log the transfer and enter send()
Run ==
    /\ pc = "run"
    /\ log' = Append(log, Rec("info", "Sending", "", value_wei))
    /\ pc' = "get_gas_params"
    /\ UNCHANGED <<gas_estimate, config, chain, block, gas_params, tx, balance, required, retry_vars,
                   calls, fails, err, tx_hash, exit_code, runs>>

-----------------------------------------------------------------------------
(* retry(), lines 74-93 *)

\* retry(func, label, ...) is entered
EnterRetry(func, label) ==
    /\ r_func' = func
    /\ r_label' = label
    /\ r_attempt' = 1
    /\ r_sleeps' = 0
    /\ pc' = "retry"

\* mutant: the last delay is skipped one attempt early
SleepsAfter_OneEarly(attempt) == attempt < RETRY_ATTEMPTS - 1

\* mutant: a delay follows every failed attempt
SleepsAfter_Always(attempt) == TRUE

\* if attempt < RETRY_ATTEMPTS: time.sleep(RETRY_DELAY_SEC)
SleepsAfter(attempt) == attempt < RETRY_ATTEMPTS

\* mutant: the nonce is read from the mined blocks only
NonceBlockId_Latest == "latest"

\* get_nonce(): the block identifier passed to get_transaction_count
NonceBlockId == "pending"

\* the chain's reply to get_transaction_count(from_address, view)
TransactionCount(view) == IF view = "pending" THEN pending ELSE latest

\* func(*args, **kwargs): the outcomes of one invocation.  A callable is the
\* remote call and replies or raises; an int is not callable and raises TypeError.
Invoke(func) ==
    IF func.callable
    THEN {Reply(TransactionCount(NonceBlockId)), Raises}
    ELSE {Raises}

\* the operations one invocation of func counts as
Invoked(func) == IF func.callable THEN {"retry_func", func.name} ELSE {"retry_func"}

\* one turn of the loop, func returns: retry() returns the value to its caller,
\* get_gas_params() (line 190-191) or get_nonce() inside build_transaction() (line 228)
RetryReturn ==
    /\ pc = "retry"
    /\ r_attempt <= RETRY_ATTEMPTS
    /\ \E out \in Invoke(r_func) :
        /\ out.ok
        /\ calls' = Count(calls, Invoked(r_func))
        /\ IF r_label = "Get nonce"
           THEN /\ tx' = [nonce |-> out.val] @@ tx
                /\ pc' = "estimate_gas"
                /\ UNCHANGED gas_params
           ELSE /\ gas_params' = [gasPrice |-> out.val]
                /\ pc' = "build_transaction"
                /\ UNCHANGED tx
    /\ UNCHANGED <<gas_estimate, config, chain, block, balance, required, retry_vars, log, fails, err,
                   tx_hash, exit_code, runs>>

\* one turn of the loop, func raises: warn, then sleep and go on, or leave the
\* loop after the last attempt and raise RuntimeError
RetryFail ==
    /\ pc = "retry"
    /\ r_attempt <= RETRY_ATTEMPTS
    /\ \E out \in Invoke(r_func) :
        /\ ~out.ok
        /\ calls' = Count(calls, Invoked(r_func))
        /\ fails' = Count(fails, Invoked(r_func))
    /\ r_sleeps' = IF SleepsAfter(r_attempt) THEN r_sleeps + 1 ELSE r_sleeps
    /\ r_attempt' = r_attempt + 1
    /\ LET lg == Append(log, Rec("warning", "failed", r_label, r_attempt)) IN
        IF r_attempt + 1 <= RETRY_ATTEMPTS
        THEN /\ log' = lg
             /\ UNCHANGED <<pc, err, exit_code>>
        ELSE Raised(RetryError(r_label), lg)
    /\ UNCHANGED <<gas_estimate, config, chain, block, gas_params, tx, balance, required, r_func,
                   r_label, tx_hash, runs>>

-----------------------------------------------------------------------------
(* get_gas_params(), lines 158-191 *)

\* if self.custom_gas_price_wei:
UseCustomGasPrice(price) == Truthy(price)

\* lines 164-169: the operator's price wins, no query is made
GetGasParamsCustom ==
    /\ pc = "get_gas_params"
    /\ UseCustomGasPrice(custom_gas_price_wei)
    /\ gas_params' = [gasPrice |-> custom_gas_price_wei]
    /\ log' = Append(log, Rec("info", "Using custom legacy gas price", "",
                              custom_gas_price_wei))
    /\ pc' = "build_transaction"
    /\ UNCHANGED <<gas_estimate, config, chain, block, tx, balance, required, retry_vars, calls, fails,
                   err, tx_hash, exit_code, runs>>

\* mutant: the multiplier is left out
MaxFee_NoMultiplier(base_fee, priority_fee) == base_fee + priority_fee

\* max_fee = base_fee * EIP1559_BASEFEE_MULTIPLIER + priority_fee
MaxFee(base_fee, priority_fee) ==
    base_fee * EIP1559_BASEFEE_MULTIPLIER + priority_fee

\* mutant: the dynamic quote also carries a legacy price
DynamicParams_WithGasPrice(base_fee) ==
    LET priority_fee == ToWeiGwei(DEFAULT_PRIORITY_FEE_GWEI) IN
    [gasPrice |-> base_fee + priority_fee,
     maxFeePerGas |-> MaxFee(base_fee, priority_fee),
     maxPriorityFeePerGas |-> priority_fee]

\* lines 176-185: the dict returned when the block carries a base fee
DynamicParams(base_fee) ==
    LET priority_fee == ToWeiGwei(DEFAULT_PRIORITY_FEE_GWEI) IN
    [maxFeePerGas |-> MaxFee(base_fee, priority_fee),
     maxPriorityFeePerGas |-> priority_fee]

\* lines 171-188: the latest block is queried once; a base fee gives the
\* dynamic quote, no base fee or an exception falls through to line 190
GetGasParamsBlock ==
    /\ pc = "get_gas_params"
    /\ ~UseCustomGasPrice(custom_gas_price_wei)
    /\ \E reply \in BlockReplies :
        /\ calls' = Count(calls, {"get_block"})
        /\ block' = reply.val
        /\ IF ~reply.ok
           THEN /\ fails' = Count(fails, {"get_block"})
                /\ log' = Append(log, Rec("debug", "EIP-1559 fee calculation failed",
                                          "", 0))
                /\ pc' = "legacy_gas_price"
                /\ UNCHANGED gas_params
           ELSE IF Get(reply.val, "baseFeePerGas") # None
           THEN /\ gas_params' = DynamicParams(reply.val.baseFeePerGas)
                /\ pc' = "build_transaction"
                /\ UNCHANGED <<fails, log>>
           ELSE /\ pc' = "legacy_gas_price"
                /\ UNCHANGED <<gas_params, fails, log>>
    /\ UNCHANGED <<gas_estimate, config, chain, tx, balance, required, retry_vars, err, tx_hash,
                   exit_code, runs>>

\* line 190: the argument self.web3.eth.gas_price is evaluated first.  It is a
\* property of web3's Eth: reading it performs the eth_gasPrice query and yields
\* an int (or raises, outside any try).  retry() is then entered with that int
\* as func.
LegacyGasPrice ==
    /\ pc = "legacy_gas_price"
    /\ \E price \in {Reply(p) : p \in NetPrices} \cup {Raises} :
        /\ calls' = Count(calls, {"gas_price"})
        /\ IF price.ok
           THEN /\ EnterRetry([callable |-> FALSE, name |-> "int", value |-> price.val],
                              "Fetch legacy gas price")
                /\ UNCHANGED <<fails, err, log, exit_code>>
           ELSE /\ fails' = Count(fails, {"gas_price"})
                /\ Raised(ClientError("gas_price"), log)
                /\ UNCHANGED retry_vars
    /\ UNCHANGED <<gas_estimate, config, chain, block, gas_params, tx, balance, required, tx_hash, runs>>

-----------------------------------------------------------------------------
(* build_transaction(), lines 221-233: the dict display evaluates chain_id,
   get_nonce(), to, value, estimate_gas() in this order, then merges gas_params *)

\* line 227: web3.eth.chain_id, then line 228 enters get_nonce() -> retry()
ChainId ==
    /\ pc = "build_transaction"
    /\ \E id \in {Reply(c) : c \in ChainIds} \cup {Raises} :
        /\ calls' = Count(calls, {"chain_id"})
        /\ IF id.ok
           THEN /\ tx' = [chainId |-> id.val]
                /\ EnterRetry([callable |-> TRUE, name |-> "get_transaction_count",
                               value |-> None], "Get nonce")
                /\ UNCHANGED <<fails, err, log, exit_code>>
           ELSE /\ fails' = Count(fails, {"chain_id"})
                /\ Raised(ClientError("chain_id"), log)
                /\ UNCHANGED <<tx, retry_vars>>
    /\ UNCHANGED <<gas_estimate, config, chain, block, gas_params, balance, required, tx_hash, runs>>

\* mutant: the fixed limit is used whatever the simulation answers
GasLimit_AlwaysDefault(est) == DEFAULT_GAS_LIMIT

\* estimate_gas(), lines 204-219: the simulated amount, or the fallback when
\* the simulation raises
GasLimit(est) == IF est.ok THEN est.val ELSE DEFAULT_GAS_LIMIT

\* estimate_gas(), lines 204-219, and the rest of the dict, lines 229-233
EstimateGas ==
    /\ pc = "estimate_gas"
    /\ \E est \in {Reply(g) : g \in GasEstimates} \cup {Raises} :
        /\ calls' = Count(calls, {"estimate_gas"})
        /\ fails' = IF est.ok THEN fails ELSE Count(fails, {"estimate_gas"})
        /\ gas_estimate' = est.val
        /\ log' = IF est.ok THEN log
                  ELSE Append(log, Rec("warning", "Gas estimation failed, using fallback",
                                       "", DEFAULT_GAS_LIMIT))
        /\ tx' = gas_params @@
                 [to |-> TO_ADDRESS, value |-> value_wei, gas |-> GasLimit(est)] @@ tx
    /\ pc' = "get_balance"
    /\ UNCHANGED <<config, chain, block, gas_params, balance, required, retry_vars, err,
                   tx_hash, exit_code, runs>>

-----------------------------------------------------------------------------
(* send(), lines 253-279 *)

\* mutant: the value field is left out of the bound
estimate_max_cost_NoValue(t) ==
    t.gas * Or(Or(Get(t, "maxFeePerGas"), Get(t, "gasPrice")), 0)

\* estimate_max_cost(tx), lines 236-248
estimate_max_cost(t) ==
    LET gas_limit == t.gas
        gas_price == Or(Or(Get(t, "maxFeePerGas"), Get(t, "gasPrice")), 0)
    IN  gas_limit * gas_price + t.value

\* mutant: the balance is compared with the transfer amount alone
BalanceTooLow_ValueOnly(bal, req, t) == bal < t.value

\* if balance < required:
BalanceTooLow(bal, req, t) == bal < req

\* lines 259-265: one balance query, the bound, the comparison
GetBalance ==
    /\ pc = "get_balance"
    /\ \E bal \in BalanceReplies(tx) :
        /\ calls' = Count(calls, {"get_balance"})
        /\ IF ~bal.ok
           THEN /\ fails' = Count(fails, {"get_balance"})
                /\ Raised(ClientError("get_balance"), log)
                /\ UNCHANGED <<balance, required>>
           ELSE /\ balance' = bal.val
                /\ required' = estimate_max_cost(tx)
                /\ UNCHANGED fails
                /\ IF BalanceTooLow(bal.val, estimate_max_cost(tx), tx)
                   THEN Raised(InsufficientBalanceError(estimate_max_cost(tx), bal.val),
                               log)
                   ELSE /\ pc' = "sign_transaction"
                        /\ UNCHANGED <<err, log, exit_code>>
    /\ UNCHANGED <<gas_estimate, config, chain, block, gas_params, tx, retry_vars, tx_hash, runs>>

\* mutant: a failed submission is tried again
OnSubmitError_Retry(exc, op) ==
    /\ log' = Append(log, Rec("error", "Transaction submission failed.", op, 0))
    /\ UNCHANGED <<pc, err, exit_code>>

\* mutant: the exception is logged and send() carries on to the receipt wait
OnSubmitError_Swallow(exc, op) ==
    /\ log' = Append(log, Rec("error", "Transaction submission failed.", op, 0))
    /\ pc' = "wait_for_receipt"
    /\ UNCHANGED <<err, exit_code>>

\* the except clauses of send(), lines 275-279
OnSubmitError(exc, op) ==
    IF exc = "InsufficientFunds"
    THEN Raised(InsufficientFundsError, log)
    ELSE Raised(ClientError(op),
                Append(log, Rec("error", "Transaction submission failed.", op, 0)))

\* mutant: the gas limit is set back to the default before signing
Sign_Rebuilds ==
    /\ pc = "sign_transaction"
    /\ calls' = Count(calls, {"sign_transaction"})
    /\ tx' = [tx EXCEPT !.gas = DEFAULT_GAS_LIMIT]
    /\ \/ /\ pc' = "send_raw_transaction"
          /\ UNCHANGED <<fails, err, log, exit_code>>
       \/ /\ fails' = Count(fails, {"sign_transaction"})
          /\ OnSubmitError("Exception", "sign_transaction")
    /\ UNCHANGED <<gas_estimate, config, chain, block, gas_params, balance, required, retry_vars,
                   tx_hash, runs>>

\* line 268: sign_transaction(tx, private_key), a local computation
Sign ==
    /\ pc = "sign_transaction"
    /\ calls' = Count(calls, {"sign_transaction"})
    /\ \/ /\ pc' = "send_raw_transaction"
          /\ UNCHANGED <<fails, err, log, exit_code>>
       \/ /\ fails' = Count(fails, {"sign_transaction"})
          /\ OnSubmitError("Exception", "sign_transaction")
    /\ UNCHANGED <<gas_estimate, config, chain, block, gas_params, tx, balance, required, retry_vars,
                   tx_hash, runs>>

\* lines 269-273: the node accepts the transaction (its nonce is not below the
\* mined count; the pending count moves past it) and send() returns the hash
BroadcastAccepted ==
    /\ pc = "send_raw_transaction"
    /\ tx.nonce >= latest
    /\ calls' = Count(calls, {"send_raw_transaction"})
    /\ sent' = Append(sent, tx.nonce)
    /\ pending' = IF tx.nonce = pending THEN pending + 1 ELSE pending
    /\ tx_hash' = HexHash(tx)
    /\ log' = Append(log, Rec("info", "Transaction broadcasted", "", tx.nonce))
    /\ pc' = "wait_for_receipt"
    /\ UNCHANGED <<gas_estimate, config, latest, block, gas_params, tx, balance, required, retry_vars,
                   fails, err, exit_code, runs>>

\* line 269 raises: InsufficientFunds or any other exception
BroadcastRejected ==
    /\ pc = "send_raw_transaction"
    /\ calls' = Count(calls, {"send_raw_transaction"})
    /\ fails' = Count(fails, {"send_raw_transaction"})
    /\ \E exc \in {"InsufficientFunds", "Exception"} :
        OnSubmitError(exc, "send_raw_transaction")
    /\ UNCHANGED <<gas_estimate, config, chain, block, gas_params, tx, balance, required, retry_vars,
                   tx_hash, runs>>

-----------------------------------------------------------------------------
(* wait_for_receipt(), lines 282-297, and the end of run(), line 311 *)

Completed(lg) ==
    /\ log' = Append(lg, Rec("info", "Transfer completed", "", tx_hash.nonce))
    /\ exit_code' = 0
    /\ pc' = "exit"

\* mutant: a receipt reporting a failed transaction is raised as an error
OnReceipt_CheckStatus(status) ==
    LET lg == log \o <<Rec("info", "Waiting for confirmation...", "", 0),
                       Rec("info", "Confirmed in block", "", status)>> IN
    IF status = 0
    THEN Raised(ClientError("wait_for_transaction_receipt"), lg)
    ELSE Completed(lg) /\ UNCHANGED err

\* lines 289-293 and 311: the receipt is logged with its status, whatever it
\* is, and run() completes
OnReceipt(status) ==
    /\ Completed(log \o <<Rec("info", "Waiting for confirmation...", "", 0),
                          Rec("info", "Confirmed in block", "", status)>>)
    /\ UNCHANGED err

\* the receipt arrives within the timeout: the transaction is mined
ReceiptConfirmed ==
    /\ pc = "wait_for_receipt"
    /\ latest > tx_hash.nonce
    /\ calls' = Count(calls, {"wait_for_transaction_receipt"})
    /\ \E status \in ReceiptStatuses : OnReceipt(status)
    /\ UNCHANGED <<gas_estimate, config, chain, block, gas_params, tx, balance, required,
                   retry_vars, fails, tx_hash, runs>>

\* mutant: an exception of the wait leaves wait_for_receipt()
OnReceiptError_Propagates(exc) ==
    Raised(ClientError("wait_for_transaction_receipt"),
           Append(log, Rec("info", "Waiting for confirmation...", "", 0)))

\* the except clauses of wait_for_receipt(), lines 294-297, then line 311:
\* the exception is logged as a warning and run() completes
OnReceiptError(exc) ==
    /\ Completed(log \o <<Rec("info", "Waiting for confirmation...", "", 0),
                          IF exc = "TransactionNotFound"
                          THEN Rec("warning", "Transaction not found yet.", "", 0)
                          ELSE Rec("warning", "Receipt wait failed", exc, 0)>>)
    /\ UNCHANGED err

\* mutant: the wait has no timeout, it can only end once the transaction is mined
ReceiptFailed_NoTimeout ==
    /\ pc = "wait_for_receipt"
    /\ latest > tx_hash.nonce
    /\ calls' = Count(calls, {"wait_for_transaction_receipt"})
    /\ fails' = Count(fails, {"wait_for_transaction_receipt"})
    /\ \E exc \in ReceiptOutcomes : OnReceiptError(exc)
    /\ UNCHANGED <<gas_estimate, config, chain, block, gas_params, tx, balance, required,
                   retry_vars, tx_hash, runs>>

\* the wait raises TransactionNotFound, TimeExhausted or another exception
ReceiptFailed ==
    /\ pc = "wait_for_receipt"
    /\ calls' = Count(calls, {"wait_for_transaction_receipt"})
    /\ fails' = Count(fails, {"wait_for_transaction_receipt"})
    /\ \E exc \in ReceiptOutcomes : OnReceiptError(exc)
    /\ UNCHANGED <<gas_estimate, config, chain, block, gas_params, tx, balance, required,
                   retry_vars, tx_hash, runs>>

-----------------------------------------------------------------------------
(* The environment *)

\* the chain mines the sender's oldest pending transaction
Mine ==
    /\ latest < pending
    /\ latest' = latest + 1
    /\ UNCHANGED <<gas_estimate, config, pending, sent, pc, block, gas_params, tx, balance, required,
                   retry_vars, log, calls, fails, err, tx_hash, exit_code, runs>>

\* the same state, reached by starting the script again
StartFresh ==
    /\ pc' = "run"
    /\ block' = EmptyDict
    /\ gas_params' = EmptyDict
    /\ tx' = EmptyDict
    /\ gas_estimate' = None
    /\ balance' = None
    /\ required' = None
    /\ r_func' = NoFunc
    /\ r_label' = ""
    /\ r_attempt' = 0
    /\ r_sleeps' = 0
    /\ calls' = NoCalls
    /\ fails' = NoCalls
    /\ err' = NoError
    /\ tx_hash' = NoHash
    /\ exit_code' = None

\* the script is started again with the same environment, against the same chain
Rerun ==
    /\ pc = "exit"
    /\ runs < MaxRuns
    /\ runs' = runs + 1
    /\ log' = InitLog(env_gas_price)
    /\ StartFresh
    /\ UNCHANGED <<config, chain>>

Next ==
    \/ Run
    \/ GetGasParamsCustom
    \/ GetGasParamsBlock
    \/ LegacyGasPrice
    \/ RetryReturn
    \/ RetryFail
    \/ ChainId
    \/ EstimateGas
    \/ GetBalance
    \/ Sign
    \/ BroadcastAccepted
    \/ BroadcastRejected
    \/ ReceiptConfirmed
    \/ ReceiptFailed
    \/ Mine
    \/ Rerun

Spec == Init /\ [][Next]_vars

\* the steps of the script itself, those of Next but the chain's and the
\* operator's
RunStep ==
    \/ Run
    \/ GetGasParamsCustom
    \/ GetGasParamsBlock
    \/ LegacyGasPrice
    \/ RetryReturn
    \/ RetryFail
    \/ ChainId
    \/ EstimateGas
    \/ GetBalance
    \/ Sign
    \/ BroadcastAccepted
    \/ BroadcastRejected
    \/ ReceiptConfirmed
    \/ ReceiptFailed

\* the script is one sequential process: a started run keeps taking its next
\* step, every remote call returns or raises, time.sleep(RETRY_DELAY_SEC)
\* returns and the receipt wait is bounded by RECEIPT_TIMEOUT_SEC.  Nothing
\* is assumed of the chain (Mine) or of the operator (Rerun).
LiveSpec == Spec /\ WF_vars(RunStep)

-----------------------------------------------------------------------------
(* Notions the properties are stated in *)

\* the price the affordability bound is stated over: maxFeePerGas of a dynamic
\* quote, gasPrice of a fixed one
FeePrice(t) == IF "maxFeePerGas" \in DOMAIN t THEN t.maxFeePerGas ELSE t.gasPrice

\* gasLimit * feePrice + value
RequiredFor(t) == t.gas * FeePrice(t) + t.value

\* the attempt indices of the warnings retry() logged for label, in order
RECURSIVE Warned(_, _)
Warned(lg, label) ==
    IF lg = <<>> THEN <<>>
    ELSE LET h == Head(lg) IN
         IF h.level = "warning" /\ h.msg = "failed" /\ h.label = label
         THEN <<h.n>> \o Warned(Tail(lg), label)
         ELSE Warned(Tail(lg), label)

\* retry() returned a value to get_nonce()
NonceReturned == "nonce" \in DOMAIN tx

-----------------------------------------------------------------------------
(* Properties *)

\* C1: in every execution of send() the broadcast is invoked at most once; when
\* it raises, whatever the error, send() has ended with that error and no second
\* broadcast, and retry() is only ever running the nonce read or the legacy
\* price, never the broadcast.
C1_BroadcastAtMostOnce ==
    /\ calls["send_raw_transaction"] <= 1
    /\ fails["send_raw_transaction"] > 0 =>
          /\ pc = "exit"
          /\ err # NoError
          /\ tx_hash = NoHash
    /\ pc = "retry" => r_func.name # "send_raw_transaction"
    /\ calls["send_raw_transaction"] > 0 => calls["retry_func"] = calls["get_transaction_count"]

C1_Witness ==
    /\ fails["send_raw_transaction"] = 1
    /\ err = ClientError("send_raw_transaction")
    /\ pc = "exit"

\* C2: whenever the balance read is below gasLimit*feePrice + value of the built
\* transaction, send() has ended with the insufficient-balance error and neither
\* signing nor the broadcast was invoked.
C2_GuardFailsClosed ==
    (balance # None /\ balance < RequiredFor(tx)) =>
        /\ pc = "exit"
        /\ err.type = "ValueError"
        /\ err.text = "Insufficient balance."
        /\ calls["sign_transaction"] = 0
        /\ calls["send_raw_transaction"] = 0

C2_Witness ==
    /\ balance # None
    /\ balance = tx.value
    /\ tx.gas * FeePrice(tx) > 0
    /\ err.text = "Insufficient balance."
    /\ pc = "exit"

\* C3: the bound the guard computes is exactly gasLimit*feePrice + value; every
\* balance at or above it passes the guard, every balance below it is rejected
\* with an error reporting that bound and the balance.
C3_RequiredExact ==
    balance # None =>
        /\ required = RequiredFor(tx)
        /\ balance >= required =>
              /\ err.text # "Insufficient balance."
              /\ pc = "sign_transaction" \/ calls["sign_transaction"] = 1
        /\ balance < required =>
              err = InsufficientBalanceError(RequiredFor(tx), balance)

C3_Witness ==
    /\ balance # None
    /\ balance = required
    /\ "maxFeePerGas" \in DOMAIN tx
    /\ pc = "sign_transaction"

\* C4: when retry() returns, the operation failed k < 3 times and then
\* succeeded: it was invoked k+1 times, k warnings were logged, k delays were
\* slept and the value is the operation's; a nonce query failing twice and then
\* succeeding gives a built transaction after exactly 2 delays.
C4_RetrySuccess ==
    NonceReturned =>
        LET k == fails["get_transaction_count"] IN
        /\ k < RETRY_ATTEMPTS
        /\ calls["retry_func"] = k + 1
        /\ calls["get_transaction_count"] = k + 1
        /\ Len(Warned(log, "Get nonce")) = k
        /\ r_sleeps = k
        /\ calls["send_raw_transaction"] = 0 => tx.nonce = pending
        /\ err # RetryError("Get nonce")
        /\ (k = 2 /\ pc = "get_balance") =>
              /\ r_sleeps * RETRY_DELAY_SEC = 2 * RETRY_DELAY_SEC
              /\ {"chainId", "nonce", "to", "value", "gas"} \subseteq DOMAIN tx

C4_Witness ==
    /\ NonceReturned
    /\ fails["get_transaction_count"] = 2
    /\ pc = "get_balance"

\* C5: an operation failing on every invocation is invoked exactly 3 times with
\* exactly 2 delays, each failed attempt is logged with its index, and retry()
\* then raises the one error naming the label; it returns no value.
C5_RetryExhausted ==
    /\ fails["retry_func"] = RETRY_ATTEMPTS <=> err = RetryError(r_label)
    /\ err.type = "RuntimeError" =>
          /\ err = RetryError(r_label)
          /\ r_label \in {"Get nonce", "Fetch legacy gas price"}
          /\ calls["retry_func"] = RETRY_ATTEMPTS
          /\ r_sleeps = RETRY_ATTEMPTS - 1
          /\ Warned(log, r_label) = <<1, 2, 3>>
          /\ ~NonceReturned
          /\ r_label = "Fetch legacy gas price" => gas_params = EmptyDict
          /\ pc = "exit"

C5_Witness ==
    /\ err = RetryError("Get nonce")
    /\ fails["get_transaction_count"] = RETRY_ATTEMPTS


\* get_gas_params() has returned or raised
FeeSelected == pc \notin {"run", "get_gas_params", "legacy_gas_price"}
                  /\ ~(pc = "retry" /\ r_label = "Fetch legacy gas price")

\* C6: on the legacy path (no valid fixed price, no base fee) the suggested
\* price is queried through retry(): unless that query failed 3 times, fee
\* selection returns {gasPrice: networkPrice}; it ends fatally only after 3
\* failed queries.
C6_LegacyFallback ==
    (calls["gas_price"] > 0 /\ FeeSelected) =>
        IF fails["gas_price"] < RETRY_ATTEMPTS
        THEN /\ DOMAIN gas_params = {"gasPrice"}
             /\ gas_params.gasPrice \in NetPrices
             /\ err.label # "Fetch legacy gas price"
        ELSE /\ pc = "exit"
             /\ err = RetryError("Fetch legacy gas price")

\* C7: without a valid fixed price, a latest block carrying a base fee always
\* gives the dynamic quote: maxPriorityFeePerGas is 2 gwei, maxFeePerGas is
\* baseFee*2 + maxPriorityFeePerGas (so at least 2*baseFee), and the suggested
\* price is never queried.
C7_DynamicQuote ==
    (calls["get_block"] > 0 /\ fails["get_block"] = 0
        /\ "baseFeePerGas" \in DOMAIN block) =>
        LET b == block.baseFeePerGas IN
        /\ custom_gas_price_wei = None
        /\ gas_params = [maxFeePerGas |-> b * 2 + 2 * WeiPerGwei,
                         maxPriorityFeePerGas |-> 2 * WeiPerGwei]
        /\ gas_params.maxFeePerGas >= 2 * b
        /\ calls["get_block"] = 1
        /\ calls["gas_price"] = 0
        /\ r_label # "Fetch legacy gas price"

C7_Witness ==
    /\ "baseFeePerGas" \in DOMAIN block
    /\ block.baseFeePerGas = MaxBaseFee
    /\ pc = "build_transaction"

\* C8: a DEFAULT_GAS_PRICE that parses to a positive integer is returned as
\* {gasPrice: thatPrice} with no latest-block and no suggested-price query; an
\* absent, non-numeric or non-positive one is ignored, the run goes on and fee
\* selection queries the latest block.
C8_FixedQuote ==
    LET r == PyInt(env_gas_price) IN
    IF env_gas_price # <<>> /\ r.ok /\ r.val > 0
    THEN /\ custom_gas_price_wei = r.val
         /\ calls["get_block"] = 0
         /\ calls["gas_price"] = 0
         /\ FeeSelected => gas_params = [gasPrice |-> r.val]
    ELSE /\ custom_gas_price_wei = None
         /\ pc \in {"run", "get_gas_params"} => (exit_code = None /\ err = NoError)
         /\ FeeSelected => calls["get_block"] = 1
         /\ "gasPrice" \in DOMAIN gas_params => calls["gas_price"] > 0

C8_Witness ==
    /\ env_gas_price = <<"3", "0">>
    /\ gas_params = [gasPrice |-> 30]
    /\ pc = "build_transaction"

\* C9: every send() reads the nonce from the chain's pending count during that
\* invocation; the nonces of successive accepted transactions of the sender
\* differ by exactly 1, also while the earlier one is still unmined.
C9_NonceFresh ==
    /\ NonceReturned =>
          /\ calls["get_transaction_count"] >= 1
          /\ calls["send_raw_transaction"] = 0 => tx.nonce = pending
    /\ \A i \in 1..(Len(sent) - 1) : sent[i + 1] = sent[i] + 1

C9_Witness ==
    /\ Len(sent) = 2
    /\ latest = 0
    /\ runs = 2

\* C10: an insufficient-funds error of the broadcast ends send() with the same
\* error shape as the pre-flight guard: the insufficient-balance error carrying
\* the required and the available amount.
C10_SameShape ==
    (fails["send_raw_transaction"] > 0 /\ err.type = "ValueError") =>
        /\ err.text = "Insufficient balance."
        /\ err.args = <<required, balance>>


\* C11: the process ends with status 0 only if the broadcast succeeded and
\* send() returned the transaction hash; every run in which send() raised (the
\* pre-flight or the remote insufficient-balance error, any other submission
\* failure, an exhausted retry, a failed read) ends with a non-zero status.
C11_ExitStatus ==
    /\ pc = "exit" <=> exit_code # None
    /\ exit_code = 0 =>
          /\ calls["send_raw_transaction"] = 1
          /\ fails["send_raw_transaction"] = 0
          /\ tx_hash = HexHash(tx)
          /\ err = NoError
    /\ err # NoError => (pc = "exit" /\ exit_code # None /\ exit_code # 0)
    /\ (fails["send_raw_transaction"] > 0 \/ fails["sign_transaction"] > 0
          \/ fails["retry_func"] = RETRY_ATTEMPTS \/ fails["get_balance"] > 0
          \/ fails["chain_id"] > 0 \/ fails["gas_price"] > 0
          \/ (balance # None /\ balance < required)) => err # NoError

C11_Witness ==
    /\ exit_code = 1
    /\ err = InsufficientFundsError
    /\ fails["send_raw_transaction"] = 1


\* C12: a failing gas simulation never ends send(): the transaction is built
\* with a gas limit of exactly 21000 and the run goes on to the balance read
\* and the affordability check; a successful simulation gives its own answer
\* as the gas limit.
C12_GasFallback ==
    calls["estimate_gas"] > 0 =>
        /\ calls["estimate_gas"] = 1
        /\ "gas" \in DOMAIN tx
        /\ pc = "get_balance" \/ calls["get_balance"] = 1
        /\ err # ClientError("estimate_gas")
        /\ IF fails["estimate_gas"] > 0
           THEN tx.gas = 21000 /\ gas_estimate = None
           ELSE tx.gas = gas_estimate /\ gas_estimate \in GasEstimates

C12_Witness ==
    /\ fails["estimate_gas"] = 1
    /\ balance # None
    /\ balance >= required
    /\ tx.gas = DEFAULT_GAS_LIMIT
    /\ pc = "sign_transaction"


\* position of the first record with message msg in lg, 0 when there is none
FirstAt(lg, msg) ==
    LET at == {i \in DOMAIN lg : lg[i].msg = msg} IN
    IF at = {} THEN 0 ELSE CHOOSE i \in at : \A j \in at : i <= j

\* C13: after an accepted broadcast, a receipt wait that ends in a timeout, in
\* "transaction not found" or in any other error is not fatal: run() ends with
\* status 0 and no error; the hash send() returned was logged before the wait
\* began and is the same before, during and after the wait.
C13_WaitNonFatal ==
    /\ fails["wait_for_transaction_receipt"] > 0 =>
          /\ pc = "exit"
          /\ exit_code = 0
          /\ err = NoError
    /\ calls["wait_for_transaction_receipt"] > 0 =>
          /\ FirstAt(log, "Transaction broadcasted") > 0
          /\ FirstAt(log, "Transaction broadcasted")
                < FirstAt(log, "Waiting for confirmation...")
    /\ (pc = "wait_for_receipt" \/ calls["wait_for_transaction_receipt"] > 0) =>
          /\ tx_hash = HexHash(tx)
          /\ log[FirstAt(log, "Transaction broadcasted")].n = tx_hash.nonce

C13_Witness ==
    /\ fails["wait_for_transaction_receipt"] = 1
    /\ FirstAt(log, "Receipt wait failed") > 0
    /\ exit_code = 0


\* the three reads the retry executor is said to wrap, and the errors that
\* end the run when one of them is given up
RetriedReads == {"get_transaction_count", "gas_price", "get_balance"}

GivenUp(op) ==
    \/ err = ClientError(op)
    \/ op = "get_transaction_count" /\ err = RetryError("Get nonce")
    \/ op = "gas_price" /\ err = RetryError("Fetch legacy gas price")

\* C14: the nonce read, the fee-price read and the balance read are each
\* attempted up to 3 times inside one send(): a run is ended by the failure of
\* one of these reads only after that read was made RETRY_ATTEMPTS times and
\* failed each time, so fewer than 3 consecutive failures do not end send().
C14_ReadsRetried ==
    \A op \in RetriedReads :
        GivenUp(op) => /\ calls[op] = RETRY_ATTEMPTS
                       /\ fails[op] = RETRY_ATTEMPTS

\* the part of C14 that the source keeps: the nonce read is retried
C14_NonceRetried ==
    GivenUp("get_transaction_count") =>
        /\ calls["get_transaction_count"] = RETRY_ATTEMPTS
        /\ fails["get_transaction_count"] = RETRY_ATTEMPTS

\* the balance read alone: one failure ends the run
C14_BalanceRetried ==
    GivenUp("get_balance") => calls["get_balance"] = RETRY_ATTEMPTS


\* the part of C15 that the source keeps: a failure of the latest-block query
\* is logged at debug level and never ends the run, the selector goes on to
\* the legacy price query
C15_DynamicSwallowed ==
    fails["get_block"] > 0 =>
        /\ err # ClientError("get_block")
        /\ FirstAt(log, "EIP-1559 fee calculation failed") > 0
        /\ pc # "get_gas_params"
        /\ pc = "legacy_gas_price" \/ calls["gas_price"] = 1

\* C15: a failure of the dynamic-pricing step never leaves get_gas_params()
\* and never ends the run by itself; the selector proceeds to the legacy price
\* query, and the outcome of that query alone decides fee selection: a price
\* returned gives the fixed quote, a failed query is fatal.
C15_LegacyDecides ==
    /\ C15_DynamicSwallowed
    /\ (fails["get_block"] > 0 /\ calls["gas_price"] = 1) =>
          /\ fails["gas_price"] > 0 => err = ClientError("gas_price")
          /\ fails["gas_price"] = 0 => err # RetryError("Fetch legacy gas price")
          /\ (fails["gas_price"] = 0 /\ FeeSelected) => "gasPrice" \in DOMAIN gas_params


\* the steps of run() in program order; a retried step counts its attempts
Steps == <<"get_block", "gas_price", "chain_id", "get_transaction_count",
           "estimate_gas", "get_balance", "sign_transaction",
           "send_raw_transaction", "wait_for_transaction_receipt">>

\* step i was given up: it failed and its failure was not absorbed by a
\* fallback (block query, gas estimate, receipt wait) or a retry (nonce)
Fatal(i) ==
    CASE Steps[i] \in {"get_block", "estimate_gas", "wait_for_transaction_receipt"} -> FALSE
      [] Steps[i] = "get_transaction_count" -> err = RetryError("Get nonce")
      [] Steps[i] = "gas_price" ->
            err \in {ClientError("gas_price"), RetryError("Fetch legacy gas price")}
      [] Steps[i] = "get_balance" ->
            fails["get_balance"] > 0 \/ (balance # None /\ balance < required)
      [] OTHER -> fails[Steps[i]] > 0

\* C16: the steps of run() occur only in the order fee selection, build
\* (chain id, nonce, gas estimate), balance read and affordability check, sign,
\* broadcast, receipt wait: a step has started only if every earlier step on
\* its path has been made, signing only after the guard passed, the broadcast
\* only after signing succeeded, the receipt wait only after the broadcast
\* succeeded, and a step that was given up leaves every later step unmade.
C16_PipelineOrder ==
    /\ calls["chain_id"] > 0 => gas_params # << >>
    /\ calls["get_transaction_count"] > 0 =>
          calls["chain_id"] = 1 /\ fails["chain_id"] = 0
    /\ calls["estimate_gas"] > 0 => NonceReturned
    /\ calls["get_balance"] > 0 => calls["estimate_gas"] = 1
    /\ calls["sign_transaction"] > 0 =>
          /\ calls["get_balance"] = 1
          /\ balance # None
          /\ balance >= required
    /\ calls["send_raw_transaction"] > 0 =>
          calls["sign_transaction"] = 1 /\ fails["sign_transaction"] = 0
    /\ (pc = "wait_for_receipt" \/ calls["wait_for_transaction_receipt"] > 0) =>
          /\ calls["send_raw_transaction"] = 1
          /\ fails["send_raw_transaction"] = 0
          /\ tx_hash # NoHash
    /\ \A i \in DOMAIN Steps :
          Fatal(i) => /\ pc = "exit"
                      /\ \A j \in DOMAIN Steps : j > i => calls[Steps[j]] = 0

C16_Witness ==
    /\ fails["sign_transaction"] = 1
    /\ balance # None
    /\ balance >= required
    /\ calls["send_raw_transaction"] = 0
    /\ calls["wait_for_transaction_receipt"] = 0
    /\ pc = "exit"


\* the names of the fee fields a transaction dict carries
FeeKeys(t) == DOMAIN t \cap {"gasPrice", "maxFeePerGas", "maxPriorityFeePerGas"}

\* build_transaction() has returned: the dict display is complete
TxBuilt == "gas" \in DOMAIN tx

\* C17: every transaction dict build_transaction() produces from the output of
\* get_gas_params() carries exactly one fee variant, gasPrice alone or
\* maxFeePerGas together with maxPriorityFeePerGas: never gasPrice beside
\* maxFeePerGas, never no fee field; the fields are those of the quote.
C17_OneFeeVariant ==
    TxBuilt =>
        /\ FeeKeys(tx) \in {{"gasPrice"}, {"maxFeePerGas", "maxPriorityFeePerGas"}}
        /\ FeeKeys(tx) = DOMAIN gas_params
        /\ \A k \in FeeKeys(tx) : tx[k] = gas_params[k] /\ tx[k] # None

C17_Witness ==
    /\ TxBuilt
    /\ FeeKeys(tx) = {"maxFeePerGas", "maxPriorityFeePerGas"}
    /\ pc = "sign_transaction"


\* the reads that fill the transaction dict
BuildReads == {"get_block", "gas_price", "chain_id", "get_transaction_count",
               "estimate_gas"}

\* C18: the transaction dict is unchanged between construction and signing:
\* once build_transaction() has returned, no step of the same run changes the
\* dict or repeats a read that filled it, so the dict that is signed and
\* broadcast has the nonce, chain id, recipient, value, gas limit and fee fields
\* on which the guard computed required; chain id, gas estimate and fee are
\* read once, and one nonce read at most succeeds.
C18_TxFrozen ==
    /\ [](/\ \A op \in BuildReads \ {"get_transaction_count"} : calls[op] <= 1
          /\ calls["get_transaction_count"] - fails["get_transaction_count"] <= 1
          /\ (balance # None) => (TxBuilt /\ required = estimate_max_cost(tx))
          /\ (tx_hash # NoHash) => (TxBuilt /\ tx_hash = HexHash(tx)))
    /\ [][(TxBuilt /\ pc # "exit") =>
              /\ tx' = tx
              /\ gas_params' = gas_params
              /\ \A op \in BuildReads : calls'[op] = calls[op]
              /\ (required # None) => required' = required]_vars

C18_Witness ==
    /\ tx_hash # NoHash
    /\ calls["send_raw_transaction"] = 1
    /\ required = estimate_max_cost(tx)
    /\ tx.gas # DEFAULT_GAS_LIMIT


\* the calls retry() repeats, and the calls made directly
RetriedCalls == {"retry_func", "get_transaction_count"}

\* C19: provided every remote call returns or fails, every run() reaches a
\* terminal state (pc = "exit" with an exit status) whatever the remote
\* failures: a call made through retry() is invoked at most RETRY_ATTEMPTS
\* times in a run, every other call at most once, and the receipt wait ends by
\* confirmation, by an error or by its timeout.
C19_Terminates ==
    /\ [](/\ \A op \in RetriedCalls : calls[op] <= RETRY_ATTEMPTS
          /\ \A op \in Ops \ RetriedCalls : calls[op] <= 1
          /\ r_attempt <= RETRY_ATTEMPTS + 1
          /\ r_sleeps < RETRY_ATTEMPTS)
    /\ (pc # "exit") ~> (pc = "exit" /\ exit_code \in {0, 1})

C19_Witness ==
    /\ pc = "exit"
    /\ runs = MaxRuns
    /\ exit_code = 0
    /\ calls["wait_for_transaction_receipt"] = 1
    /\ fails["get_transaction_count"] = RETRY_ATTEMPTS - 1


\* the status the receipt of this run reported, None when no receipt was logged
ReceiptStatus ==
    LET at == FirstAt(log, "Confirmed in block") IN
    IF at = 0 THEN None ELSE log[at].n

\* C20: after an accepted broadcast the outcome of run() does not depend on the
\* status flag of the receipt: with status 0 (included, failed) as with status
\* 1 the run logs "Transfer completed", raises no error and ends with exit
\* status 0.
C20_StatusIgnored ==
    ReceiptStatus # None =>
        /\ ReceiptStatus \in ReceiptStatuses
        /\ pc = "exit"
        /\ exit_code = 0
        /\ err = NoError
        /\ log[Len(log)].msg = "Transfer completed"
        /\ tx_hash = HexHash(tx)

C20_Witness ==
    /\ ReceiptStatus = 0
    /\ exit_code = 0
    /\ log[Len(log)].msg = "Transfer completed"

====
